---- MODULE Spec2Model ----
(***************************************************************************)
(* Model of rust-mc-status-server: the varint codec (varint/src/lib.rs),   *)
(* the per-connection protocol engine (statusserver/src/player.rs,         *)
(* packets.rs) and the connection task over the shared ServerInfo (main.rs).*)
(*                                                                         *)
(* Bytes are integers 0..255, byte strings are sequences of bytes.  An i32 *)
(* is an integer in MinI32..MaxI32; two's complement operations are        *)
(* written with floor division and modulus, which agree with the bit       *)
(* operations on that range.                                               *)
(***************************************************************************)
EXTENDS Integers, Sequences, FiniteSets, TLC

VARIABLES
    build,      \* "debug" (overflow checks panic) or "release" (wrapping)
    vphase,     \* codec harness: "enc", "dec", "done", "enc_diverged", "off"
    enc,        \* encode's locals: [n, cur, res]
    dec,        \* decode_stream's locals and its reader
    server_info,\* the shared ServerInfo behind the RwLock
    booted,     \* main has loaded the configuration and listens
    readers,    \* read guards held on server_info
    reload,     \* the reload thread: where it is, what it read, how its last
                \* reload ended
    pc,         \* handle_client: "idle", "running", "returned_ok", "returned_err",
                \* "panicked", "hung"
    player,     \* the connection's Player: [state, handshake_info]
    conn,       \* bytes the server has received and not yet read
    shut,       \* the transport was shut down by the server
    last,       \* the last call of receive_packet on this connection
    snapshot    \* server_info as it was when this connection's handler started

codec_vars == <<vphase, enc, dec>>
server_vars == <<server_info, booted, readers, reload>>
conn_vars == <<pc, player, conn, shut, last, snapshot>>
vars == <<build, vphase, enc, dec, server_info, booted, readers, reload,
          pc, player, conn, shut, last, snapshot>>

(***************************************************************************)
(* 32-bit arithmetic                                                       *)
(***************************************************************************)
MaxI32 == 2147483647
MinI32 == -MaxI32 - 1

RECURSIVE Pow2(_)
Pow2(k) == IF k = 0 THEN 1 ELSE 2 * Pow2(k - 1)

Max2(a, b) == IF a >= b THEN a ELSE b

\* a | b on two's complement integers (sign extended without end)
RECURSIVE BitOr(_, _)
BitOr(a, b) ==
    IF a = 0 THEN b
    ELSE IF b = 0 THEN a
    ELSE IF a = -1 \/ b = -1 THEN -1
    ELSE 2 * BitOr(a \div 2, b \div 2) + Max2(a % 2, b % 2)

\* (x as i32) << s for 0 <= x < 128 and 0 <= s < 32, wrapped to 32 bits
Shl32(x, s) ==
    IF s <= 24 THEN x * Pow2(s)
    ELSE LET keep == x % Pow2(32 - s)
             top  == Pow2(31 - s)
         IN  IF keep >= top THEN MinI32 + (keep - top) * Pow2(s)
             ELSE keep * Pow2(s)

(***************************************************************************)
(* varint::encode, one iteration of its loop (lib.rs 27-35).               *)
(* `cur >> 7` on an i32 is an arithmetic shift: floor division by 128.     *)
(***************************************************************************)
\* encode_iter without `| 0x80` on the bytes that are followed by another
encode_iter_nocont(cur, res) ==
    LET b == cur % 128
        c2 == cur \div 128
    IN  IF c2 = 0 THEN [cur |-> c2, res |-> Append(res, b), done |-> TRUE]
        ELSE [cur |-> c2, res |-> Append(res, b), done |-> FALSE]

encode_iter(cur, res) ==
    LET b == cur % 128
        c2 == cur \div 128
    IN  IF c2 = 0 THEN [cur |-> c2, res |-> Append(res, b), done |-> TRUE]
        ELSE [cur |-> c2, res |-> Append(res, b + 128), done |-> FALSE]

RECURSIVE encode_loop(_, _)
encode_loop(cur, res) ==
    LET Again(s) == IF s.done THEN s.res ELSE encode_loop(s.cur, s.res)
    IN  Again(encode_iter(cur, res))

\* varint::encode(n); like the code it returns only for n >= 0
encode(n) == encode_loop(n, <<>>)

(***************************************************************************)
(* varint::decode_stream, one iteration of its loop (lib.rs 8-19).         *)
(* rd is what stream.read returned: [kind |-> "byte", b |-> ..] (Ok(1)),   *)
(* [kind |-> "eof"] (Ok(0): buf keeps its last value) or                   *)
(* [kind |-> "err"] (Err).  shift is a u8; `<<` by 32 or more and          *)
(* `shift += 7` past 255 panic in a debug build and wrap in a release one. *)
(***************************************************************************)
decode_iter(d, rd, bld) ==
    IF rd.kind = "err" THEN [d EXCEPT !.out = "err"]
    ELSE LET i == IF rd.kind = "byte" THEN rd.b ELSE d.buf
         IN  IF d.shift >= 32 /\ bld = "debug" THEN [d EXCEPT !.buf = i, !.out = "panic"]
             ELSE IF d.shift + 7 > 255 /\ bld = "debug"
                  THEN [d EXCEPT !.buf = i, !.out = "panic"]
             ELSE [d EXCEPT !.buf = i,
                            !.result = BitOr(d.result, Shl32(i % 128, d.shift % 32)),
                            !.shift = (d.shift + 7) % 256,
                            !.out = IF i >= 128 THEN "cont" ELSE "ok"]

\* locals of decode_stream at entry (lib.rs 4-6)
decode_locals == [shift |-> 0, result |-> 0, buf |-> 0, out |-> "cont"]

\* the read a stream answers with: s the bytes it still holds, end what it
\* does once they are used up ("eof": Ok(0), "timeout": Err)
stream_read(s, end) ==
    IF s # <<>> THEN [kind |-> "byte", b |-> Head(s)]
    ELSE IF end = "eof" THEN [kind |-> "eof"]
    ELSE [kind |-> "err"]

\* at end of file with the continuation bit set in buf, a release build
\* repeats the same iteration for ever
decode_spins(d, s, end, bld) ==
    s = <<>> /\ end = "eof" /\ d.buf >= 128 /\ bld = "release"

RECURSIVE decode_loop(_, _, _, _)
decode_loop(d, s, end, bld) ==
    IF decode_spins(d, s, end, bld) THEN [out |-> "hang", val |-> 0, rest |-> s]
    ELSE LET Again(d2, s2) ==
                 IF d2.out = "cont" THEN decode_loop(d2, s2, end, bld)
                 ELSE [out |-> d2.out, val |-> d2.result, rest |-> s2]
         IN  Again(decode_iter(d, stream_read(s, end), bld),
                   IF s # <<>> THEN Tail(s) ELSE s)

\* varint::decode_stream(stream): [out, val, rest]; out is "ok" (Ok(val)),
\* "err" (Err), "panic" or "hang"
decode_stream(s, end, bld) == decode_loop(decode_locals, s, end, bld)

(***************************************************************************)
(* Bytes, integers on the wire and text.  A text (Rust String / &str) is   *)
(* the sequence of its Unicode scalar values.                              *)
(***************************************************************************)
None == <<>>                         \* Option::None
Some(x) == <<x>>                     \* Option::Some(x)

\* the members of a sequence of sequences, joined in order
RECURSIVE Concat(_)
Concat(ss) ==
    IF ss = <<>> THEN <<>>
    ELSE IF Len(ss) = 1 THEN ss[1]
    ELSE LET h == Len(ss) \div 2
         IN  Concat(SubSeq(ss, 1, h)) \o Concat(SubSeq(ss, h + 1, Len(ss)))

Drop(s, n) == SubSeq(s, n + 1, Len(s))
Take(s, n) == SubSeq(s, 1, n)

\* Read::read_exact on n bytes: Err (an io::Error) when fewer are to be had
read_exact(s, n) ==
    IF Len(s) >= n THEN [ok |-> TRUE, bytes |-> Take(s, n), rest |-> Drop(s, n)]
    ELSE [ok |-> FALSE, bytes |-> <<>>, rest |-> <<>>]

\* byteorder big-endian integers
u16_from_be(b) == b[1] * 256 + b[2]
u16_to_be(v) == <<(v \div 256) % 256, v % 256>>
\* a u64 is kept as its 16-bit limbs, most significant first
\* (u64_from_be_swapped: a reader that takes the limbs in the opposite order)
u64_from_be_swapped(b) == [k \in 1 .. 4 |-> u16_from_be(SubSeq(b, 9 - 2 * k, 10 - 2 * k))]
u64_from_be(b) == [k \in 1 .. 4 |-> u16_from_be(SubSeq(b, 2 * k - 1, 2 * k))]
limbs_to_be(v) == Concat([k \in 1 .. Len(v) |-> u16_to_be(v[k])])
\* i32::to_be_bytes
\* (i32_to_le: the same four bytes, least significant first)
i32_to_le(n) ==
    LET hi == n \div 65536
        lo == n % 65536
    IN  <<lo % 256, lo \div 256, (hi % 65536) % 256, (hi % 65536) \div 256>>

i32_to_be(n) ==
    LET hi == n \div 65536
        lo == n % 65536
    IN  u16_to_be(hi % 65536) \o u16_to_be(lo)

\* `x as u16`, `x as u8` on an i32
as_u16(n) == n % 65536
as_u8(n) == n % 256

\* core::str::from_utf8 / String::from_utf8: is the byte string well-formed UTF-8
IsCont(b) == b >= 128 /\ b <= 191
RECURSIVE IsUtf8(_)
IsUtf8(s) ==
    IF s = <<>> THEN TRUE
    ELSE LET b == s[1]
             n == Len(s)
         IN  IF b < 128 THEN IsUtf8(Drop(s, 1))
             ELSE IF b >= 194 /\ b <= 223
                  THEN n >= 2 /\ IsCont(s[2]) /\ IsUtf8(Drop(s, 2))
             ELSE IF b >= 224 /\ b <= 239
                  THEN /\ n >= 3
                       /\ IsCont(s[2]) /\ IsCont(s[3])
                       /\ (b = 224 => s[2] >= 160)
                       /\ (b = 237 => s[2] <= 159)
                       /\ IsUtf8(Drop(s, 3))
             ELSE IF b >= 240 /\ b <= 244
                  THEN /\ n >= 4
                       /\ IsCont(s[2]) /\ IsCont(s[3]) /\ IsCont(s[4])
                       /\ (b = 240 => s[2] >= 144)
                       /\ (b = 244 => s[2] <= 143)
                       /\ IsUtf8(Drop(s, 4))
             ELSE FALSE

\* the text of a well-formed UTF-8 byte string
RECURSIVE Utf8Decode(_)
Utf8Decode(s) ==
    IF s = <<>> THEN <<>>
    ELSE LET b == s[1]
         IN  IF b < 128 THEN <<b>> \o Utf8Decode(Drop(s, 1))
             ELSE IF b <= 223
                  THEN <<(b % 32) * 64 + (s[2] % 64)>> \o Utf8Decode(Drop(s, 2))
             ELSE IF b <= 239
                  THEN <<(b % 16) * 4096 + (s[2] % 64) * 64 + (s[3] % 64)>>
                       \o Utf8Decode(Drop(s, 3))
             ELSE <<(b % 8) * 262144 + (s[2] % 64) * 4096 + (s[3] % 64) * 64 + (s[4] % 64)>>
                  \o Utf8Decode(Drop(s, 4))

\* str::as_bytes: the UTF-8 bytes of a text
Utf8Char(c) ==
    IF c < 128 THEN <<c>>
    ELSE IF c < 2048 THEN <<192 + (c \div 64), 128 + (c % 64)>>
    ELSE IF c < 65536 THEN <<224 + (c \div 4096), 128 + ((c \div 64) % 64), 128 + (c % 64)>>
    ELSE <<240 + (c \div 262144), 128 + ((c \div 4096) % 64), 128 + ((c \div 64) % 64),
           128 + (c % 64)>>
as_bytes(txt) ==
    IF \A k \in 1 .. Len(txt) : txt[k] < 128 THEN txt
    ELSE Concat([k \in 1 .. Len(txt) |-> Utf8Char(txt[k])])

\* str::encode_utf16: the UTF-16 code units of a text
Utf16Char(c) ==
    IF c < 65536 THEN <<c>>
    ELSE <<55296 + ((c - 65536) \div 1024), 56320 + ((c - 65536) % 1024)>>
encode_utf16(txt) == Concat([k \in 1 .. Len(txt) |-> Utf16Char(txt[k])])

\* String::from_utf16: every surrogate is half of a well-ordered pair
IsHighSurrogate(u) == u >= 55296 /\ u <= 56319
IsLowSurrogate(u) == u >= 56320 /\ u <= 57343
RECURSIVE IsUtf16(_)
IsUtf16(us) ==
    IF us = <<>> THEN TRUE
    ELSE IF IsHighSurrogate(us[1])
         THEN Len(us) >= 2 /\ IsLowSurrogate(us[2]) /\ IsUtf16(Drop(us, 2))
    ELSE IF IsLowSurrogate(us[1]) THEN FALSE
    ELSE IsUtf16(Drop(us, 1))
RECURSIVE Utf16Decode(_)
Utf16Decode(us) ==
    IF us = <<>> THEN <<>>
    ELSE IF IsHighSurrogate(us[1])
         THEN <<65536 + (us[1] - 55296) * 1024 + (us[2] - 56320)>> \o Utf16Decode(Drop(us, 2))
    ELSE <<us[1]>> \o Utf16Decode(Drop(us, 1))

\* Display of an integer (format!("{}", n)): decimal digits, '-' first when negative
RECURSIVE DigitsOf(_)
DigitsOf(n) == IF n < 10 THEN <<48 + n>> ELSE Append(DigitsOf(n \div 10), 48 + (n % 10))
Decimal(n) ==
    IF n >= 0 THEN DigitsOf(n)
    ELSE IF n = MinI32 THEN <<45>> \o DigitsOf(MaxI32 \div 10) \o <<56>>
    ELSE <<45>> \o DigitsOf(-n)

\* lower-case hexadecimal digit
HexDigit(v) == IF v < 10 THEN 48 + v ELSE 87 + v
HexByte(b) == <<HexDigit(b \div 16), HexDigit(b % 16)>>

(***************************************************************************)
(* ServerInfo and the texts built from it (packets.rs 63-102, 157-187).    *)
(***************************************************************************)
\* json::parse is library code: it is given by its result on the texts the
\* configurations below use, None standing for Err.  A parsed value carries
\* its dump() (compact JSON) and its Display text (to_string()), which for a
\* JSON string is the bare content and for an object or array the dump.
txt_hi_object == <<123, 34, 116, 101, 120, 116, 34, 58, 34, 104, 105, 34, 125>>    \* {"text":"hi"}
txt_bye_quoted == <<34, 66, 121, 101, 34>>    \* "Bye"
txt_bye == <<66, 121, 101>>    \* Bye
txt_plain_hi == <<72, 105>>    \* Hi
txt_status_server == <<65, 32, 115, 116, 97, 116, 117, 115, 32, 115, 101, 114, 118, 101, 114>>    \* A status server
txt_just_status == <<74, 117, 115, 116, 32, 97, 32, 115, 116, 97, 116, 117, 115, 32, 115, 101, 114, 118, 101, 114>>    \* Just a status server
txt_paragraph_a == <<167, 97, 72, 105>>    \* §aHi
txt_custom == <<99, 117, 115, 116, 111, 109>>    \* custom
txt_1_8 == <<49, 46, 56>>    \* 1.8
txt_snowman == <<49, 46, 9731>>    \* 1.☃
txt_bob == <<66, 111, 98>>    \* Bob
txt_icon == <<65, 65, 65, 61>>    \* AAA=

json_parse(txt) ==
    IF txt = txt_hi_object
    THEN Some([kind |-> "object", dump |-> txt_hi_object, display |-> txt_hi_object])
    ELSE IF txt = txt_bye_quoted
    THEN Some([kind |-> "string", dump |-> txt_bye_quoted, display |-> txt_bye])
    ELSE None

\* the value of the lazy_static server_info before main loads anything (main.rs 25-39)
static_server_info ==
    [config |-> [version |-> txt_custom, protocol |-> Some(127),
                 online_players |-> 0, max_players |-> 0, player_list |-> <<>>,
                 motd |-> txt_status_server, kick_message |-> txt_just_status],
     icon |-> None]

\* contents config.toml may have (ServerConfig, packets.rs 87-96)
ZeroUuid == [k \in 1 .. 16 |-> 0]
SomeUuid == [k \in 1 .. 16 |-> 16 * k + k - 17]
Configs ==
    { [version |-> txt_1_8, protocol |-> Some(47),
       online_players |-> 0, max_players |-> 20, player_list |-> <<>>,
       motd |-> txt_plain_hi, kick_message |-> txt_bye],
      [version |-> txt_snowman, protocol |-> None,
       online_players |-> -1, max_players |-> 20,
       player_list |-> <<[name |-> txt_bob, uuid |-> None]>>,
       motd |-> txt_hi_object, kick_message |-> txt_bye_quoted],
      [version |-> txt_custom, protocol |-> None,
       online_players |-> 1, max_players |-> 1,
       player_list |-> <<[name |-> txt_bob, uuid |-> Some(SomeUuid)]>>,
       motd |-> txt_paragraph_a, kick_message |-> txt_hi_object] }

\* json's string writer: '"' and '\' escaped, control characters as \b \t \n \f \r or \u00xx
JsonEscapeChar(c) ==
    IF c = 34 THEN <<92, 34>>
    ELSE IF c = 92 THEN <<92, 92>>
    ELSE IF c = 8 THEN <<92, 98>>
    ELSE IF c = 9 THEN <<92, 116>>
    ELSE IF c = 10 THEN <<92, 110>>
    ELSE IF c = 12 THEN <<92, 102>>
    ELSE IF c = 13 THEN <<92, 114>>
    ELSE IF c < 32 THEN <<92, 117, 48, 48>> \o HexByte(c)
    ELSE <<c>>
JsonString(txt) ==
    IF \A k \in 1 .. Len(txt) : txt[k] >= 32 /\ txt[k] # 34 /\ txt[k] # 92
    THEN <<34>> \o txt \o <<34>>
    ELSE <<34>> \o Concat([k \in 1 .. Len(txt) |-> JsonEscapeChar(txt[k])]) \o <<34>>

\* Uuid's Display: 8-4-4-4-12 lower-case hexadecimal digits
UuidText(u) ==
    Concat([k \in 1 .. 16 |->
        HexByte(u[k]) \o (IF k \in {4, 6, 8, 10} THEN <<45>> ELSE <<>>)])

\* From<PlayerListEntry> for JsonValue (packets.rs 78-85)
DEFAULT_UUID == ZeroUuid
PlayerListEntryJson(e) ==
    <<123, 34, 110, 97, 109, 101, 34, 58>> \o JsonString(e.name)
    \o <<44, 34, 105, 100, 34, 58>>
    \o JsonString(UuidText(IF e.uuid = None THEN DEFAULT_UUID ELSE e.uuid[1]))
    \o <<125>>
RECURSIVE JsonArrayItems(_)
JsonArrayItems(items) ==
    IF items = <<>> THEN <<>>
    ELSE IF Len(items) = 1 THEN items[1]
    ELSE items[1] \o <<44>> \o JsonArrayItems(Tail(items))

\* make_status_response (packets.rs 157-187): the compact JSON text
\* {"version":{"name":..,"protocol":..},"players":{"max":..,"online":..,"sample":[..]},
\*  "description":..,"favicon":..,"enforcesSecureChat":false}
txt_data_uri == <<100, 97, 116, 97, 58, 105, 109, 97, 103, 101, 47, 112, 110, 103, 59, 98, 97, 115, 101, 54, 52, 44>>
make_status_response(version, protocol, maxplr, players, playerlist, motd, secure, icon) ==
    LET parsed == json_parse(motd)
        description == IF parsed = None THEN JsonString(motd) ELSE parsed[1].dump
        favicon == IF icon = None THEN <<110, 117, 108, 108>>
                   ELSE JsonString(txt_data_uri \o icon[1])
    IN  <<123, 34, 118, 101, 114, 115, 105, 111, 110, 34, 58, 123, 34, 110, 97, 109, 101, 34, 58>> \o JsonString(version)
        \o <<44, 34, 112, 114, 111, 116, 111, 99, 111, 108, 34, 58>> \o Decimal(protocol)
        \o <<125, 44, 34, 112, 108, 97, 121, 101, 114, 115, 34, 58, 123, 34, 109, 97, 120, 34, 58>> \o Decimal(maxplr)
        \o <<44, 34, 111, 110, 108, 105, 110, 101, 34, 58>> \o Decimal(players)
        \o <<44, 34, 115, 97, 109, 112, 108, 101, 34, 58, 91>>
        \o JsonArrayItems([k \in 1 .. Len(playerlist) |-> PlayerListEntryJson(playerlist[k])])
        \o <<93, 125, 44, 34, 100, 101, 115, 99, 114, 105, 112, 116, 105, 111, 110, 34, 58>> \o description
        \o <<44, 34, 102, 97, 118, 105, 99, 111, 110, 34, 58>> \o favicon
        \o <<44, 34, 101, 110, 102, 111, 114, 99, 101, 115, 83, 101, 99, 117, 114, 101, 67, 104, 97, 116, 34, 58>>
        \o (IF secure THEN <<116, 114, 117, 101>> ELSE <<102, 97, 108, 115, 101>>)
        \o <<125>>

(***************************************************************************)
(* The protocol engine (player.rs 57-186, packets.rs 104-263).             *)
(*                                                                         *)
(* A handler is an operator from what it reads to what it leaves behind:   *)
(*   res   the Result it returns: Ok, an Err of PacketError, or "panic" /  *)
(*         "hang" when it does not return;                                 *)
(*   pl    the Player's state and handshake_info afterwards;               *)
(*   wrote the bytes the transport took from it, in order;                 *)
(*   shut  whether it shut the transport down;                             *)
(*   path  the handlers entered, outermost first.                          *)
(* io = [end, wr, sd, build]: what the transport answers once the client's *)
(* bytes are used up ("eof" or "timeout"), what it does with a write       *)
(* ("full", "short": Ok(n) with n below the length, "err"), what it        *)
(* answers to shutdown ("ok", "err") and the build.                        *)
(***************************************************************************)
HANDSHAKING == "Handshaking"
STATUS == "Status"
LOGIN == "Login"
TRANSFER == "Transfer"

Ok == [kind |-> "Ok", data |-> <<>>]
Err(kind, data) == [kind |-> kind, data |-> data]
IOError == Err("IOError", <<>>)
ClosedError == Err("ClosedError", <<>>)
DataError(bytes) == Err("DataError", bytes)
\* a varint that was not decoded: the reader's Err is an IOError (`?`), a
\* panic or an endless loop is the handler's own end
NotDecoded(p) == IF p.out = "err" THEN IOError ELSE Err(p.out, <<>>)

Ret(res, pl, wrote, sd, path) ==
    [res |-> res, pl |-> pl, wrote |-> wrote, shut |-> sd, path |-> path]
Under(name, r) == [r EXCEPT !.path = <<name>> \o r.path]

\* Player::new (player.rs 78-86)
new_player == [state |-> HANDSHAKING, handshake_info |-> None]

\* ConnectionState::try_from(u8) (player.rs 57-68): None stands for Err
\* (try_from_swapped: a conversion with the arms of 1 and 2 exchanged)
try_from_swapped(value) ==
    IF value = 1 THEN Some(LOGIN)
    ELSE IF value = 2 THEN Some(STATUS)
    ELSE IF value = 3 THEN Some(TRANSFER)
    ELSE None

\* (try_from_zero_handshaking: a conversion that also takes 0, as Handshaking)
try_from_zero_handshaking(value) ==
    IF value = 0 THEN Some(HANDSHAKING)
    ELSE IF value = 1 THEN Some(STATUS)
    ELSE IF value = 2 THEN Some(LOGIN)
    ELSE IF value = 3 THEN Some(TRANSFER)
    ELSE None

try_from(value) ==
    IF value = 1 THEN Some(STATUS)
    ELSE IF value = 2 THEN Some(LOGIN)
    ELSE IF value = 3 THEN Some(TRANSFER)
    ELSE None

\* TcpStream::write(buf) -> what the transport took, and whether it was Ok
transport_write(bytes, wr) ==
    IF wr = "err" THEN [ok |-> FALSE, wrote |-> <<>>]
    ELSE IF wr = "short" THEN [ok |-> TRUE, wrote |-> Take(bytes, Len(bytes) \div 2)]
    ELSE [ok |-> TRUE, wrote |-> bytes]

\* send_packet (packets.rs 189-198)
packet_bytes(packet_id, data) ==
    LET total_packet(id) == encode(Len(id) + Len(data)) \o id \o data
    IN  total_packet(encode(packet_id))

send_packet(packet_id, data, wr) == transport_write(packet_bytes(packet_id, data), wr)

\* handle_handshake (packets.rs 131-155): each local operator is the rest of
\* the function once the values it is given have been read
handle_handshake(packet, pl, io) ==
    LET name == <<"handle_handshake">>
        Fail(e) == Ret(e, pl, <<>>, FALSE, name)
        Finish(protocol_version, host, port, intent) ==
            IF intent.out # "ok" THEN Fail(NotDecoded(intent))
            ELSE IF try_from(as_u8(intent.val)) = None
                 THEN Fail(DataError(<<as_u8(intent.val)>>))
            ELSE Ret(Ok,
                     [state |-> try_from(as_u8(intent.val))[1],
                      handshake_info |->
                          Some([protocol |-> as_u16(protocol_version.val),
                                server_addr |-> Utf8Decode(host.bytes),
                                server_port |-> u16_from_be(port.bytes)])],
                     <<>>, FALSE, name)
        AfterPort(protocol_version, host, port) ==
            IF ~port.ok THEN Fail(IOError)
            ELSE Finish(protocol_version, host, port,
                        decode_stream(port.rest, "eof", io.build))
        AfterHost(protocol_version, host) ==
            IF ~host.ok THEN Fail(IOError)
            ELSE IF ~IsUtf8(host.bytes) THEN Fail(Err("FromUtf8Error", <<>>))
            ELSE AfterPort(protocol_version, host, read_exact(host.rest, 2))
        AfterStrlen(protocol_version, strlen) ==
            IF strlen.out # "ok" THEN Fail(NotDecoded(strlen))
            ELSE IF strlen.val < 0 THEN Fail(Err("panic", <<>>))
            ELSE AfterHost(protocol_version, read_exact(strlen.rest, strlen.val))
        AfterProtocol(protocol_version) ==
            IF protocol_version.out # "ok" THEN Fail(NotDecoded(protocol_version))
            ELSE AfterStrlen(protocol_version,
                             decode_stream(protocol_version.rest, "eof", io.build))
    IN  AfterProtocol(decode_stream(packet, "eof", io.build))

\* handle_status (packets.rs 207-235)
\* (status_protocol_handshake_first: a selection that prefers the handshake)
status_protocol_handshake_first(pl, info) ==
    IF pl.handshake_info # None THEN pl.handshake_info[1].protocol
    ELSE IF info.config.protocol # None THEN info.config.protocol[1]
    ELSE 127

status_protocol(pl, info) ==
    IF info.config.protocol # None THEN info.config.protocol[1]
    ELSE IF pl.handshake_info # None THEN pl.handshake_info[1].protocol
    ELSE 127

\* full_data (packets.rs 231-232)
length_prefixed(response) == encode(Len(response)) \o response

status_body(protocol, info) ==
    length_prefixed(as_bytes(make_status_response(
                        info.config.version, protocol,
                        info.config.max_players, info.config.online_players,
                        info.config.player_list, info.config.motd, FALSE, info.icon)))

\* the Result of a handler that ends with send_packet(..)?; Ok(())
sent_result(w, pl, name) == Ret(IF w.ok THEN Ok ELSE IOError, pl, w.wrote, FALSE, name)

handle_status(packet, pl, info, io) ==
    sent_result(send_packet(0, status_body(status_protocol(pl, info), info), io.wr),
                pl, <<"handle_status">>)

\* handle_ping (packets.rs 200-205)
handle_ping(data, pl, io) ==
    LET name == <<"handle_ping">>
        AfterRead(r) ==
            IF ~r.ok THEN Ret(IOError, pl, <<>>, FALSE, name)
            ELSE sent_result(send_packet(1, limbs_to_be(u64_from_be(r.bytes)), io.wr),
                             pl, name)
    IN  AfterRead(read_exact(data, 8))

\* the text handle_login sends (packets.rs 255-258)
kick_text(kick_message) ==
    IF json_parse(kick_message) # None THEN json_parse(kick_message)[1].display
    ELSE kick_message

\* handle_login (packets.rs 237-263)
handle_login(packet, pl, info, io) ==
    LET name == <<"handle_login">>
        Fail(e) == Ret(e, pl, <<>>, FALSE, name)
        AfterUuid(uuid) ==
            IF ~uuid.ok THEN Fail(IOError)
            ELSE sent_result(
                     send_packet(0, length_prefixed(as_bytes(kick_text(info.config.kick_message))),
                                 io.wr),
                     pl, name)
        AfterName(namebuf) ==
            IF ~namebuf.ok THEN Fail(IOError)
            ELSE IF ~IsUtf8(namebuf.bytes) THEN Fail(Err("Utf8Error", <<>>))
            ELSE AfterUuid(read_exact(namebuf.rest, 16))
        AfterLen(name_len) ==
            IF name_len.out # "ok" THEN Fail(NotDecoded(name_len))
            ELSE IF name_len.val <= 0 \/ name_len.val > 16
                 THEN IF io.sd = "err" THEN Fail(IOError)
                      ELSE Ret(DataError(i32_to_be(name_len.val)), pl, <<>>, TRUE, name)
            ELSE AfterName(read_exact(name_len.rest, name_len.val))
    IN  AfterLen(decode_stream(packet, "eof", io.build))

\* handle_status_login (packets.rs 104-129)
\* (handle_status_login_rehandshake: a match whose last arm takes a handshake)
handle_status_login_rehandshake(packet, pl, info, io) ==
    Under("handle_status_login",
        IF pl.state = STATUS THEN handle_status(packet, pl, info, io)
        ELSE IF pl.state = LOGIN THEN handle_login(packet, pl, info, io)
        ELSE handle_handshake(packet, pl, io))

handle_status_login(packet, pl, info, io) ==
    Under("handle_status_login",
        IF pl.state = HANDSHAKING THEN handle_handshake(packet, pl, io)
        ELSE IF pl.state = STATUS THEN handle_status(packet, pl, info, io)
        ELSE IF pl.state = LOGIN THEN handle_login(packet, pl, info, io)
        ELSE Ret(Ok, pl, <<>>, FALSE, <<>>))

\* Player::handle_packet (player.rs 88-107)
\* (handle_packet_strict: a dispatcher that refuses the ids it does not know)
handle_packet_strict(packet, pl, info, io) ==
    LET AfterId(packet_id) ==
            IF packet_id.out # "ok" THEN Ret(NotDecoded(packet_id), pl, <<>>, FALSE, <<>>)
            ELSE IF packet_id.val = 0 THEN handle_status_login(packet_id.rest, pl, info, io)
            ELSE IF packet_id.val = 1 THEN handle_ping(packet_id.rest, pl, io)
            ELSE Ret(DataError(<<>>), pl, <<>>, FALSE, <<>>)
    IN  Under("handle_packet", AfterId(decode_stream(packet, "eof", io.build)))

handle_packet(packet, pl, info, io) ==
    LET AfterId(packet_id) ==
            IF packet_id.out # "ok" THEN Ret(NotDecoded(packet_id), pl, <<>>, FALSE, <<>>)
            ELSE IF packet_id.val = 0 THEN handle_status_login(packet_id.rest, pl, info, io)
            ELSE IF packet_id.val = 1 THEN handle_ping(packet_id.rest, pl, io)
            ELSE Ret(Ok, pl, <<>>, FALSE, <<>>)
    IN  Under("handle_packet", AfterId(decode_stream(packet, "eof", io.build)))

\* Player::read_utf16_string (player.rs 109-120), reading the transport:
\* [res, txt, rest]
read_utf16_string(stream) ==
    LET Units(strlen, body) ==
            [k \in 1 .. strlen |-> u16_from_be(SubSeq(body.bytes, 2 * k - 1, 2 * k))]
        AfterUnits(pingstr, rest) ==
            IF ~IsUtf16(pingstr)
            THEN [res |-> Err("FromUtf16Error", <<>>), txt |-> <<>>, rest |-> rest]
            ELSE [res |-> Ok, txt |-> Utf16Decode(pingstr), rest |-> rest]
        AfterBody(strlen, body) ==
            IF ~body.ok THEN [res |-> IOError, txt |-> <<>>, rest |-> <<>>]
            ELSE AfterUnits(Units(strlen, body), body.rest)
        AfterLen(len) ==
            IF ~len.ok THEN [res |-> IOError, txt |-> <<>>, rest |-> <<>>]
            ELSE IF u16_from_be(len.bytes) > 255
                 THEN [res |-> DataError(len.bytes), txt |-> <<>>, rest |-> len.rest]
            ELSE AfterBody(u16_from_be(len.bytes),
                           read_exact(len.rest, 2 * u16_from_be(len.bytes)))
    IN  AfterLen(read_exact(stream, 2))

\* the text of the legacy response (player.rs 144-155)
legacy_response(protocol, info) ==
    Decimal(protocol) \o <<0>> \o info.config.version \o <<0>> \o info.config.motd
    \o <<0>> \o Decimal(info.config.online_players)
    \o <<0>> \o Decimal(info.config.max_players) \o <<0>>

legacy_header == <<0, 167, 0, 49, 0, 0>>

\* what the writes of player.rs 156-163 put on the transport
legacy_units(v) == Concat([k \in 1 .. Len(v) |-> u16_to_be(v[k])])
legacy_wire_of(response, wr) ==
    <<255>>
    \o u16_to_be(as_u16(Len(as_bytes(response))))
    \o transport_write(legacy_header, wr).wrote
    \o legacy_units(encode_utf16(response))
legacy_wire(protocol, info, wr) == legacy_wire_of(legacy_response(protocol, info), wr)

\* Player::handle_legacy_ping (player.rs 122-165); the conn field is what is left of
\* the transport's bytes
WithConn(r, stream) ==
    [res |-> r.res, pl |-> r.pl, wrote |-> r.wrote, shut |-> r.shut, path |-> r.path,
     conn |-> stream]

handle_legacy_ping(stream, pl, info, io) ==
    LET name == <<"handle_legacy_ping">>
        Fail(e, rest) == WithConn(Ret(e, pl, <<>>, FALSE, name), rest)
        Protocol(their) == IF info.config.protocol # None THEN info.config.protocol[1]
                           ELSE their.bytes[1]
        AfterPort(their, port) ==
            IF ~port.ok THEN Fail(IOError, <<>>)
            ELSE IF io.wr = "err" THEN Fail(IOError, port.rest)
            ELSE WithConn(Ret(Ok, pl, legacy_wire(Protocol(their), info, io.wr), FALSE, name),
                          port.rest)
        AfterHost(their, host) ==
            IF host.res # Ok THEN Fail(host.res, host.rest)
            ELSE AfterPort(their, read_exact(host.rest, 4))
        AfterProtocol(their) ==
            IF ~their.ok THEN Fail(IOError, <<>>)
            ELSE AfterHost(their, read_utf16_string(their.rest))
        AfterRestLen(restlen) ==
            IF ~restlen.ok THEN Fail(IOError, <<>>)
            ELSE AfterProtocol(read_exact(restlen.rest, 1))
        AfterPingstr(pingstr) ==
            IF pingstr.res # Ok THEN Fail(pingstr.res, pingstr.rest)
            ELSE AfterRestLen(read_exact(pingstr.rest, 2))
        AfterFirst(first) ==
            IF ~first.ok THEN Fail(IOError, <<>>)
            ELSE AfterPingstr(read_utf16_string(first.rest))
    IN  AfterFirst(read_exact(stream, 1))

\* the test of player.rs 176 that sends a packet to handle_legacy_ping
\* (is_legacy_ping_any_state: a test that leaves the state out)
is_legacy_ping_any_state(packet_size, pl) == packet_size = 254
is_legacy_ping(packet_size, pl) == packet_size = 254 /\ pl.state = HANDSHAKING

\* Player::receive_packet (player.rs 167-185)
receive_packet(pl, stream, info, io) ==
    LET name == <<"receive_packet">>
        Stop(e, rest) == WithConn(Ret(e, pl, <<>>, FALSE, name), rest)
        AfterBody(packet) ==
            IF ~packet.ok THEN Stop(IOError, <<>>)
            ELSE WithConn(Under("receive_packet", handle_packet(packet.bytes, pl, info, io)),
                          packet.rest)
        AfterSize(packet_size) ==
            IF packet_size.out = "err" THEN Stop(Err("panic", <<>>), packet_size.rest)
            ELSE IF packet_size.out # "ok"
                 THEN Stop(Err(packet_size.out, <<>>), packet_size.rest)
            ELSE IF packet_size.val <= 0 THEN Stop(ClosedError, packet_size.rest)
            ELSE IF packet_size.val > 256 THEN Stop(ClosedError, packet_size.rest)
            ELSE IF is_legacy_ping(packet_size.val, pl)
                 THEN Under("receive_packet",
                            handle_legacy_ping(packet_size.rest, pl, info, io))
            ELSE AfterBody(read_exact(packet_size.rest, packet_size.val))
    IN  AfterSize(decode_stream(stream, io.end, io.build))

(***************************************************************************)
(* What a client may put on the wire.  The layouts are the ones the        *)
(* handlers read; varints are written the protocol's way (the u32 bit      *)
(* pattern in 7-bit groups), which a client is free to do for any value.   *)
(***************************************************************************)
GroupCount(n) ==
    IF n < Pow2(7) THEN 1
    ELSE IF n < Pow2(14) THEN 2
    ELSE IF n < Pow2(21) THEN 3
    ELSE IF n < Pow2(28) THEN 4
    ELSE 5
\* the 7-bit groups of n >= 0, least significant first, as many as n needs,
\* the high bit on all but the last
RefEncode(n) ==
    [i \in 1 .. GroupCount(n) |->
        ((n \div Pow2(7 * (i - 1))) % 128) + (IF i < GroupCount(n) THEN 128 ELSE 0)]
wire_varint(n) ==
    IF n >= 0 THEN RefEncode(n)
    ELSE [i \in 1 .. 5 |->
            IF i < 5 THEN ((n \div Pow2(7 * (i - 1))) % 128) + 128
            ELSE (n \div Pow2(28)) % 16]

Zeros(n) == [k \in 1 .. n |-> 0]
frame(payload) == wire_varint(Len(payload)) \o payload
utf16_be(txt) ==
    LET v == encode_utf16(txt) IN Concat([k \in 1 .. Len(v) |-> u16_to_be(v[k])])

txt_host == <<104, 105>>    \* hi
txt_host_e_acute == <<233>>    \* é
txt_pinghost == <<77, 67, 124, 80, 105, 110, 103, 72, 111, 115, 116>>    \* MC|PingHost

\* a handshake: id 0, protocol, server address, port, intent (packets.rs 134-140)
handshake_payload(d) ==
    <<0>> \o wire_varint(d.protocol) \o wire_varint(Len(d.host)) \o d.host
    \o u16_to_be(d.port) \o wire_varint(d.intent)
Intents == {0, 1, 2, 3, 4, 256, 257, 259, -1, -254, MaxI32}
HandshakeDescs ==
    {[protocol |-> 47, host |-> as_bytes(txt_host), port |-> 25565, intent |-> i] :
        i \in Intents}
    \cup {[protocol |-> 65583, host |-> <<>>, port |-> 0, intent |-> i] : i \in {1, 2}}
    \cup {[protocol |-> -1, host |-> <<>>, port |-> 65535, intent |-> i] : i \in {1, 2}}
    \cup {[protocol |-> 759, host |-> <<255>>, port |-> 25565, intent |-> 1],
          [protocol |-> 759, host |-> as_bytes(txt_host_e_acute), port |-> 25565,
           intent |-> 2]}
HandshakeFrames == {frame(handshake_payload(d)) : d \in HandshakeDescs}

\* a ping: id 1 and an 8-byte token (packets.rs 202)
PingTokens == {<<222, 173, 190, 239, 1, 2, 3, 4>>, <<0, 0, 0, 0, 0, 0, 0, 42>>}
PingFrames == {frame(<<1>> \o t) : t \in PingTokens}

\* a login start: id 0, name length, name, uuid (packets.rs 243-253)
login_payload(name_len, name, uuid) == <<0>> \o wire_varint(name_len) \o name \o uuid
LoginFrames ==
    {frame(login_payload(n, as_bytes(txt_bob), Zeros(16))) : n \in {3, 0, 17, -1}}
    \cup {frame(login_payload(16, Zeros(16), ZeroUuid)),
          frame(login_payload(3, <<66, 255, 98>>, ZeroUuid)),
          frame(login_payload(3, as_bytes(txt_bob), Zeros(4)))}

\* a legacy ping: FE 01 FA, "MC|PingHost", payload length, protocol, host, port
\* (player.rs 123-137)
legacy_ping(ident, pinghost_units, protocol, host) ==
    <<254, 1, ident>> \o u16_to_be(pinghost_units) \o utf16_be(txt_pinghost)
    \o u16_to_be(7 + 2 * Len(encode_utf16(host))) \o <<protocol>>
    \o u16_to_be(Len(encode_utf16(host))) \o utf16_be(host) \o <<0, 0, 99, 221>>
LegacyFrames ==
    {legacy_ping(250, 11, 47, txt_host), legacy_ping(250, 11, 74, <<>>),
     legacy_ping(1, 11, 47, txt_host), legacy_ping(250, 256, 47, txt_host),
     Take(legacy_ping(250, 11, 47, txt_host), 12),
     <<254, 1, 250, 0, 1, 216, 0>>,
     legacy_ping(250, 11, 47, txt_host) \o <<1, 0>>}

\* frames of 254 bytes that are not a legacy ping
Frames254 == {wire_varint(254) \o p \o Zeros(254 - Len(p)) :
                 p \in {<<0>>, <<1, 222, 173, 190, 239, 1, 2, 3, 4>>, <<5>>}}

\* the rest: a status request, unknown ids, lengths at and beyond the limits,
\* truncated frames, varints that do not end, two frames sent together
OtherFrames ==
    {<<1, 0>>, <<1, 5>>, <<2, 128, 1>>, <<1, 1>>, <<3, 1, 1, 2>>,
     <<0>>, <<0, 1, 0>>, wire_varint(-1), wire_varint(257) \o <<0>>, wire_varint(300),
     wire_varint(256) \o Zeros(256), wire_varint(256) \o <<7>> \o Zeros(255),
     frame(wire_varint(-1)), <<5, 0>>, <<128>>, <<1, 128>>, <<128, 128, 128, 128, 128, 128, 1>>,
     <<3, 0, 47, 128>>, <<2, 0, 47>>,
     frame(handshake_payload([protocol |-> 759, host |-> as_bytes(txt_host),
                              port |-> 25565, intent |-> 1])) \o <<1, 0>>}

Frames == HandshakeFrames \cup PingFrames \cup LoginFrames \cup LegacyFrames
          \cup Frames254 \cup OtherFrames

(***************************************************************************)
(* Codec harness: the round trip of lib.rs 66-74 (encode, then             *)
(* decode_stream on the encoded slice) and decode_stream on raw slices,    *)
(* taken one loop iteration at a time.                                     *)
(***************************************************************************)
MaxEncLen == 6        \* iterations of encode's loop that are followed
MaxDecLen == 7        \* longest raw slice handed to decode_stream
MaxSmall == 300       \* 0..MaxSmall are all encoded
Exps == 0 .. 30       \* 2^k, 2^k - 1, -2^k and -2^k - 1 are encoded for k in Exps

Builds == {"debug", "release"}

EncInputs ==
    (0 .. MaxSmall)
    \cup UNION {{Pow2(k) - 1, Pow2(k), -Pow2(k), -Pow2(k) - 1} : k \in Exps}
    \cup {2835928, MaxI32, MinI32}

RECURSIVE SeqsUpTo(_, _)
SeqsUpTo(S, n) ==
    IF n = 0 THEN {<<>>}
    ELSE LET shorter == SeqsUpTo(S, n - 1)
         IN  shorter \cup {Append(s, b) : s \in shorter, b \in S}

DecInputs == SeqsUpTo({1, 128, 255}, MaxDecLen) \cup {<<216, 139, 173, 1>>}

enc_idle == [n |-> 0, cur |-> 0, res |-> <<>>]
dec_idle == [from |-> "none", src |-> <<>>, s |-> <<>>, d |-> decode_locals]
dec_start(from, bytes) == [from |-> from, src |-> bytes, s |-> bytes, d |-> decode_locals]

no_call == [called |-> FALSE, pre |-> new_player, input |-> <<>>,
            io |-> [end |-> "eof", wr |-> "full", sd |-> "none"],
            res |-> Ok, wrote |-> <<>>, path |-> <<>>, consumed |-> 0]

\* the server does not run while the codec is exercised
\* the reload thread at the head of its loop; done is how the last reload
\* ended: its file, whether it was loaded, the value loaded, server_info as
\* it was just before, and whether the reload before it failed
no_reload == [kind |-> "none", ok |-> TRUE, after_failure |-> FALSE]
reload_idle == [pc |-> "idle", val |-> None, done |-> no_reload]

server_off ==
    /\ server_info = static_server_info
    /\ booted = FALSE
    /\ readers = 0
    /\ reload = reload_idle
    /\ snapshot = static_server_info
    /\ pc = "idle"
    /\ player = new_player
    /\ conn = <<>>
    /\ shut = FALSE
    /\ last = no_call

InitCodec ==
    /\ build \in Builds
    /\ server_off
    /\ \/ \E n \in EncInputs :
             /\ vphase = "enc"
             /\ enc = [n |-> n, cur |-> n, res |-> <<>>]
             /\ dec = dec_idle
       \/ \E bytes \in DecInputs :
             /\ vphase = "dec"
             /\ enc = enc_idle
             /\ dec = dec_start("raw", bytes)

\* one iteration of encode's loop; on `break` the result goes to decode_stream
EncodeStep ==
    /\ vphase = "enc"
    /\ Len(enc.res) < MaxEncLen
    /\ LET s == encode_iter(enc.cur, enc.res)
       IN  /\ enc' = [enc EXCEPT !.cur = s.cur, !.res = s.res]
           /\ IF s.done
              THEN vphase' = "dec" /\ dec' = dec_start("encode", s.res)
              ELSE UNCHANGED <<vphase, dec>>
    /\ UNCHANGED <<build, server_vars, conn_vars>>

\* the loop state no longer changes and is not the exit state: encode never returns
EncodeDiverge ==
    /\ vphase = "enc"
    /\ Len(enc.res) >= MaxEncLen
    /\ LET s == encode_iter(enc.cur, enc.res)
       IN  ~s.done /\ s.cur = enc.cur
    /\ vphase' = "enc_diverged"
    /\ UNCHANGED <<build, enc, dec, server_vars, conn_vars>>

\* one iteration of decode_stream's loop on a slice (a slice reads Ok(0) at its end)
DecodeStep ==
    /\ vphase = "dec"
    /\ IF decode_spins(dec.d, dec.s, "eof", build)
       THEN /\ dec' = [dec EXCEPT !.d.out = "hang"]
            /\ vphase' = "done"
       ELSE LET d2 == decode_iter(dec.d, stream_read(dec.s, "eof"), build)
            IN  /\ dec' = [dec EXCEPT !.d = d2,
                                      !.s = IF dec.s # <<>> THEN Tail(dec.s) ELSE dec.s]
                /\ vphase' = IF d2.out = "cont" THEN "dec" ELSE "done"
    /\ UNCHANGED <<build, enc, server_vars, conn_vars>>

NextCodec == EncodeStep \/ EncodeDiverge \/ DecodeStep

SpecCodec == InitCodec /\ [][NextCodec]_vars

(***************************************************************************)
(* The server: main's start-up loads, one connection at a time served by   *)
(* main's start and handle_client (main.rs 75-97, 169-176, 245-251).  A    *)
(* connection holds the read lock of server_info from its first line to    *)
(* its return, so server_info is one value for the whole of a connection.  *)
(***************************************************************************)

Ends == {"eof", "timeout"}
Writes == {"full", "short", "err"}
Shutdowns == {"ok", "err"}

codec_off == vphase = "off" /\ enc = enc_idle /\ dec = dec_idle

Init ==
    /\ build \in Builds
    /\ codec_off
    /\ server_off

\* what the files hold when main starts
Loaded ==
    {[config |-> c, icon |-> IF c.player_list = <<>> THEN Some(txt_icon) ELSE None] :
        c \in Configs}

\* main.rs 169-176: load_config must succeed, load_icon may fail
Boot ==
    /\ ~booted
    /\ server_info' \in Loaded
    /\ booted' = TRUE
    /\ UNCHANGED <<build, codec_vars, readers, reload, conn_vars>>

\* main.rs 247-251 and handle_client 76-80: a connection is accepted, its
\* Player made and the read lock taken (the write lock is held only within
\* one step of the reload thread, so the read lock is there to take)
Accept ==
    /\ booted
    /\ pc \in {"idle", "returned_ok", "returned_err", "panicked"}
    /\ readers' = readers + 1
    /\ pc' = "running"
    /\ player' = new_player
    /\ conn' = <<>>
    /\ shut' = FALSE
    /\ last' = no_call
    /\ snapshot' = server_info
    /\ UNCHANGED <<build, codec_vars, server_info, booted, reload>>

\* what handle_client does with receive_packet's result (main.rs 83-95)
\* (after_receive_closed_is_error: a match without the ClosedError arm)
after_receive_closed_is_error(res) ==
    IF res.kind = "Ok" THEN "running"
    ELSE IF res.kind = "panic" THEN "panicked"
    ELSE IF res.kind = "hang" THEN "hung"
    ELSE "returned_err"

after_receive(res) ==
    IF res.kind = "Ok" THEN "running"
    ELSE IF res.kind = "ClosedError" THEN "returned_ok"
    ELSE IF res.kind = "panic" THEN "panicked"
    ELSE IF res.kind = "hang" THEN "hung"
    ELSE "returned_err"

\* one turn of handle_client's loop (main.rs 81-96).  When the server has
\* read all the client sent, its read waits for the client's next chunk
\* (sent), or for the end of the stream when the client sends no more.  When
\* the function is left, by return or by panic, the read guard is dropped.  last.io keeps
\* the transport's answers that this call met: end is "any" when the length
\* prefix was read without reaching the end of the client's bytes, wr is
\* "none" when nothing was written, sd is "none" when shutdown was not called
Receive(frames) ==
    /\ pc = "running"
    /\ \E sent \in (IF conn = <<>> THEN frames \cup {<<>>} ELSE {<<>>}) :
        \E reads_end \in {decode_stream(conn \o sent, "eof", build)
                              # decode_stream(conn \o sent, "timeout", build)} :
        \E end \in (IF reads_end THEN Ends ELSE {"eof"}) :
        \E full \in {receive_packet(player, conn \o sent, server_info,
                                    [end |-> end, wr |-> "full", sd |-> "ok",
                                     build |-> build])} :
        \E wr \in (IF full.wrote = <<>> THEN {"full"} ELSE Writes) :
        \E sd \in (IF full.shut THEN Shutdowns ELSE {"ok"}) :
        \E r \in {IF wr = "full" /\ sd = "ok" THEN full
                  ELSE receive_packet(player, conn \o sent, server_info,
                                      [end |-> end, wr |-> wr, sd |-> sd,
                                       build |-> build])} :
            /\ player' = r.pl
            /\ conn' = r.conn
            /\ shut' = (shut \/ r.shut)
            /\ pc' = after_receive(r.res)
            /\ readers' = IF after_receive(r.res) \in {"running", "hung"}
                          THEN readers ELSE readers - 1
            /\ last' = [called |-> TRUE, pre |-> player, input |-> conn \o sent,
                        io |-> [end |-> IF reads_end THEN end ELSE "any",
                                wr |-> IF full.wrote = <<>> THEN "none" ELSE wr,
                                sd |-> IF full.shut THEN sd ELSE "none"],
                        res |-> r.res, wrote |-> r.wrote, path |-> r.path,
                        consumed |-> Len(conn \o sent) - Len(r.conn)]
    /\ UNCHANGED <<build, codec_vars, server_info, booted, reload, snapshot>>

ReceivePacket == Receive(Frames)

Next == Boot \/ Accept \/ ReceivePacket

Spec == Init /\ [][Next]_vars

(***************************************************************************)
(* The reload thread (main.rs 99-106, 135-143, 260-293) beside the         *)
(* connections.  One connection is followed in full; the others only hold  *)
(* their read guards.                                                      *)
(***************************************************************************)
MaxOthers == 1        \* connections served beside the one that is followed

\* read guards of the other connections
others == readers - (IF pc \in {"running", "hung"} THEN 1 ELSE 0)

\* RwLock::write (main.rs 102, 138) returns once no guard is held
\* (write_lock_ignores_readers: a lock that lets the writer in at once)
write_lock_ignores_readers(guards) == TRUE
write_lock_free(guards) == guards = 0

\* cfg.config = new_cfg (main.rs 139); cfg.icon = icon (main.rs 103)
\* (with_config_alone: an assignment of a whole new ServerInfo)
with_config_alone(info, new_cfg) == [config |-> new_cfg, icon |-> None]
with_config(info, new_cfg) == [info EXCEPT !.config = new_cfg]
with_icon(info, icon) == [info EXCEPT !.icon = icon]

\* what the requests of the followed connection are
FewFrames ==
    {frame(handshake_payload([protocol |-> 759, host |-> as_bytes(txt_host),
                              port |-> 25565, intent |-> i])) : i \in {1, 2}}
    \cup {<<1, 0>>,
          frame(login_payload(3, as_bytes(txt_bob), Zeros(16))),
          legacy_ping(250, 11, 74, <<>>)}

ReceiveFew == Receive(FewFrames)

\* another connection's handle_client takes its read guard (main.rs 80) ...
OtherAccept ==
    /\ booted
    /\ others < MaxOthers
    /\ readers' = readers + 1
    /\ UNCHANGED <<build, codec_vars, server_info, booted, reload, conn_vars>>

\* ... and returns, dropping it
OtherReturn ==
    /\ others > 0
    /\ readers' = readers - 1
    /\ UNCHANGED <<build, codec_vars, server_info, booted, reload, conn_vars>>

\* how a reload ended
reload_done(kind, ok) ==
    [kind |-> kind, ok |-> ok, after_failure |-> ~reload.done.ok]

\* a close-write event on config.toml or icon.b64 (main.rs 266-284): the file
\* is read and parsed (main.rs 136-137, 100); when that fails load_config or
\* load_icon returns Err, the thread prints it and takes the next event
ReloadEvent ==
    /\ booted
    /\ reload.pc = "idle"
    /\ \/ \E c \in Configs : reload' = [reload EXCEPT !.pc = "config", !.val = Some(c)]
       \/ reload' = [reload EXCEPT !.pc = "icon", !.val = Some(txt_icon)]
       \/ \E kind \in {"config", "icon"} :
              reload' = [reload EXCEPT !.done = reload_done(kind, FALSE)]
    /\ UNCHANGED <<build, codec_vars, server_info, booted, readers, conn_vars>>

\* load_config / load_icon under the write lock (main.rs 138-141, 101-104)
ReloadWrite ==
    /\ reload.pc # "idle"
    /\ write_lock_free(readers)
    /\ server_info' = IF reload.pc = "config" THEN with_config(server_info, reload.val[1])
                      ELSE with_icon(server_info, reload.val)
    /\ reload' = [pc |-> "idle", val |-> None,
                  done |-> reload_done(reload.pc, TRUE)]
    /\ UNCHANGED <<build, codec_vars, booted, readers, conn_vars>>

NextReload ==
    \/ Boot \/ Accept \/ ReceiveFew
    \/ OtherAccept \/ OtherReturn
    \/ ReloadEvent \/ ReloadWrite

SpecReload == Init /\ [][NextReload]_vars

\* fair scheduling of the threads: a connection's thread that can take a
\* turn of its loop takes it (its read returns with bytes, with the end of
\* the stream or with the 5 s timeout, main.rs 76), a connection that only
\* holds its guard returns, and the reload thread goes on once write()
\* can return.  File events and new connections come as they please.
SpecReloadFair ==
    /\ SpecReload
    /\ WF_vars(ReceiveFew)
    /\ WF_vars(OtherReturn)
    /\ WF_vars(ReloadWrite)

(***************************************************************************)
(* Codec properties                                                        *)
(***************************************************************************)
BytesRead == Len(dec.src) - Len(dec.s)
Encoded == dec.from = "encode"       \* encode returned and its bytes are in dec.src

\* C5: for every i32 n, the round trip ends with decode_stream(encode(n)) = Ok(n)
\* (every run that starts by encoding n ends, and ends with n decoded).
C5_RoundTripAll ==
    (vphase = "enc_diverged" \/ (vphase = "done" /\ Encoded))
        => (vphase = "done" /\ dec.d.out = "ok" /\ dec.d.result = enc.n)

\* C6: for every n >= 0, encode(n) returns the reference encoding (so
\* 127 -> [7F], 128 -> [80 01], 2835928 -> [D8 8B AD 01]) and decode_stream of
\* those bytes returns n; decode_stream of the raw bytes D8 8B AD 01 is 2835928.
C6_ReferenceEncoding ==
    /\ (enc.n >= 0 => vphase # "enc_diverged")
    /\ (Encoded /\ enc.n >= 0) =>
          /\ dec.src = RefEncode(enc.n)
          /\ enc.n = 127 => dec.src = <<127>>
          /\ enc.n = 128 => dec.src = <<128, 1>>
          /\ enc.n = 2835928 => dec.src = <<216, 139, 173, 1>>
          /\ vphase = "done" => (dec.d.out = "ok" /\ dec.d.result = enc.n)
    /\ (vphase = "done" /\ dec.src = <<216, 139, 173, 1>>)
          => (dec.d.out = "ok" /\ dec.d.result = 2835928)

C6_Witness ==
    /\ vphase = "done" /\ Encoded
    /\ enc.n = 2835928
    /\ dec.src = <<216, 139, 173, 1>>
    /\ dec.d.result = 2835928

\* C7: on a stream whose first six bytes all carry the continuation bit,
\* decode_stream reads at most six bytes, never returns an integer and ends
\* by returning an error value.
SixContinuations ==
    /\ dec.from = "raw"
    /\ Len(dec.src) >= 6
    /\ \A i \in 1 .. 6 : dec.src[i] >= 128
C7_MalformedRejected ==
    SixContinuations =>
        /\ BytesRead <= 6
        /\ dec.d.out \in {"cont", "err"}
        /\ vphase = "done" => dec.d.out = "err"

\* C8: encode(n) returns for every i32 n with 1 to 5 bytes, and with
\* exactly 5 bytes when n is negative.
C8_EncodeLength ==
    /\ vphase # "enc_diverged"
    /\ Len(enc.res) <= 5
    /\ Encoded => (Len(dec.src) \in 1 .. 5 /\ (enc.n < 0 => Len(dec.src) = 5))

(***************************************************************************)
(* Protocol engine properties.  last is the latest call of receive_packet  *)
(* on this connection: the Player before it (pre), the bytes the transport *)
(* held (input), its result, what it wrote and the handlers it entered;    *)
(* player and pc are the Player and the connection's task after it.        *)
(***************************************************************************)
IsPrefix(p, s) == Len(p) <= Len(s) /\ SubSeq(s, 1, Len(p)) = p
Entered(name) == \E k \in 1 .. Len(last.path) : last.path[k] = name

\* a handshake whose protocol fits a u16 and whose address is UTF-8
WellFormed(d) == d.protocol \in 0 .. 65535 /\ IsUtf8(d.host)
FreshHandshake(d) ==
    /\ last.called
    /\ last.pre = new_player
    /\ last.input = frame(handshake_payload(d))
IntentState(i) == IF i = 1 THEN STATUS ELSE IF i = 2 THEN LOGIN ELSE TRANSFER

\* C1: on a fresh connection a well-formed handshake with intent 1, 2 or 3
\* moves the connection to Status, Login or Transfer, stores the packet's
\* protocol, server address and port as HandshakeInfo, and writes nothing.
C1_HandshakeIntents ==
    \A d \in HandshakeDescs :
        (FreshHandshake(d) /\ WellFormed(d) /\ d.intent \in {1, 2, 3}) =>
            /\ last.res = Ok
            /\ pc = "running"
            /\ player.state = IntentState(d.intent)
            /\ player.handshake_info # None
            /\ player.handshake_info[1].protocol = d.protocol
            /\ as_bytes(player.handshake_info[1].server_addr) = d.host
            /\ player.handshake_info[1].server_port = d.port
            /\ last.wrote = <<>>
            /\ ~shut

C1_Witness ==
    /\ \E d \in HandshakeDescs : FreshHandshake(d) /\ WellFormed(d) /\ d.intent = 3
    /\ player.state = TRANSFER
    /\ player.handshake_info = Some([protocol |-> 47, server_addr |-> txt_host,
                                     server_port |-> 25565])

\* C2: a handshake whose intent varint is any 32-bit integer other than 1, 2
\* or 3 fails with DataError carrying the intent byte; the state stays
\* Handshaking, no HandshakeInfo is stored and the connection is terminated.
C2_BadIntentRejected ==
    \A d \in HandshakeDescs :
        (FreshHandshake(d) /\ WellFormed(d) /\ d.intent \notin {1, 2, 3}) =>
            /\ last.res = DataError(<<d.intent % 256>>)
            /\ player = new_player
            /\ pc = "returned_err"

\* the length prefixes outside 1 .. 256 that clients send
RejectedLengths == {0, -1, 257, 300}
StartsWithLength(L) == last.called /\ IsPrefix(wire_varint(L), last.input)

\* C3: in every connection state a frame whose length prefix L is <= 0 or
\* > 256 is rejected with ClosedError: nothing of the frame past the prefix is
\* read, no handler runs, nothing is written, the Player is unchanged, and
\* the connection's task ends as a clean termination.
C3_LengthRejected ==
    \A L \in RejectedLengths :
        StartsWithLength(L) =>
            /\ last.res = ClosedError
            /\ last.consumed = Len(wire_varint(L))
            /\ last.path = <<"receive_packet">>
            /\ last.wrote = <<>>
            /\ ~shut
            /\ player = last.pre
            /\ pc = "returned_ok"

C3_Witness ==
    /\ StartsWithLength(257)
    /\ last.pre.state = LOGIN
    /\ last.res = ClosedError
    /\ pc = "returned_ok"

\* C4: a frame with length prefix 254 goes to the legacy-ping handler if and
\* only if the connection is in Handshaking; in the other states it is read
\* as a 254-byte frame and dispatched on its packet id; the legacy handler
\* never changes the state or the HandshakeInfo.
C4_LegacyOnlyInHandshaking ==
    /\ Entered("handle_legacy_ping") =>
          (StartsWithLength(254) /\ last.pre.state = HANDSHAKING /\ player = last.pre)
    /\ StartsWithLength(254) =>
          /\ last.pre.state = HANDSHAKING =>
                (last.path = <<"receive_packet", "handle_legacy_ping">>)
          /\ (last.pre.state # HANDSHAKING /\ Len(last.input) < 256) =>
                (last.res = IOError /\ last.path = <<"receive_packet">>)
          /\ (last.pre.state # HANDSHAKING /\ Len(last.input) >= 256) =>
                /\ last.consumed = 256
                /\ SubSeq(last.path, 1, 2) = <<"receive_packet", "handle_packet">>
                /\ Entered("handle_status_login") <=> last.input[3] = 0
                /\ Entered("handle_ping") <=> last.input[3] = 1

C4_Witness ==
    /\ StartsWithLength(254)
    /\ last.pre.state = HANDSHAKING
    /\ Entered("handle_legacy_ping")
    /\ last.res = Ok
    /\ last.wrote # <<>>
    /\ player = new_player

\* the protocol number the status response is to carry
ExpectedProtocol ==
    IF server_info.config.protocol # None THEN server_info.config.protocol[1]
    ELSE IF last.pre.handshake_info # None THEN last.pre.handshake_info[1].protocol
    ELSE 127
StatusRequest ==
    /\ last.called
    /\ last.pre.state = STATUS
    /\ IsPrefix(<<1, 0>>, last.input)
    /\ last.io.wr = "full"

\* C9: the status response to a status request (state Status, id 0) carries
\* config.protocol when the configuration sets it, otherwise the protocol of
\* this connection's handshake, otherwise 127; it is written as packet id 0
\* and the connection stays in Status.  (The transport takes the write whole.)
C9_StatusProtocol ==
    /\ StatusRequest =>
          /\ last.res = Ok
          /\ last.wrote = packet_bytes(0, status_body(ExpectedProtocol, server_info))
          /\ last.wrote[Len(encode(Len(last.wrote) - 2)) + 1] = 0
          /\ player = last.pre
          /\ pc = "running"
    /\ \A c \in Configs :
          c.protocol = None =>
              handle_status(<<>>, [state |-> STATUS, handshake_info |-> None],
                            [config |-> c, icon |-> None],
                            [end |-> "eof", wr |-> "full", sd |-> "ok",
                             build |-> build]).wrote
                  = packet_bytes(0, status_body(127, [config |-> c, icon |-> None]))

C9_Witness ==
    /\ StatusRequest
    /\ server_info.config.protocol = None
    /\ last.pre.handshake_info # None
    /\ last.pre.handshake_info[1].protocol = 759
    /\ last.wrote = packet_bytes(0, status_body(759, server_info))

PingOf(t) ==
    /\ last.called
    /\ last.pre.state = STATUS
    /\ last.input = frame(<<1>> \o t)
    /\ last.io.wr = "full"

\* C10: in state Status a ping packet (id 1) with an 8-byte token is answered
\* with exactly one packet of id 1 whose body is the same 8 bytes in the same
\* order (10 bytes on the wire), and the state remains Status.  (The
\* transport takes the write whole.)
C10_PingEcho ==
    \A t \in PingTokens :
        PingOf(t) =>
            /\ last.res = Ok
            /\ last.wrote = <<9, 1>> \o t
            /\ Len(last.wrote) = 10
            /\ player = last.pre
            /\ pc = "running"

C10_Witness ==
    /\ PingOf(<<222, 173, 190, 239, 1, 2, 3, 4>>)
    /\ last.wrote = <<9, 1, 222, 173, 190, 239, 1, 2, 3, 4>>
    /\ player.state = STATUS

\* a login start whose name length is n, received in state Login
LoginStart(n) ==
    /\ last.called
    /\ last.pre.state = LOGIN
    /\ last.input = frame(login_payload(n, as_bytes(txt_bob), Zeros(16)))
BadNameLens == {0, 17, -1}
NameLenBytes(n) == IF n = 0 THEN <<0, 0, 0, 0>>
                   ELSE IF n = 17 THEN <<0, 0, 0, 17>>
                   ELSE <<255, 255, 255, 255>>

\* C11: in state Login a login start whose name_len is <= 0 or > 16 shuts the
\* transport down in both directions and returns DataError with name_len's
\* four big-endian bytes; no disconnect packet is written and neither name
\* nor UUID is read (the outcome is the same when those bytes are absent).
\* (The transport accepts the shutdown.)
C11_BadNameLen ==
    \A n \in BadNameLens :
        /\ (LoginStart(n) /\ last.io.sd = "ok") =>
              /\ last.res = DataError(NameLenBytes(n))
              /\ shut
              /\ last.wrote = <<>>
              /\ player = last.pre
              /\ pc = "returned_err"
        /\ LoginStart(n) =>
              handle_login(wire_varint(n), last.pre, server_info,
                           [end |-> "eof", wr |-> "full", sd |-> last.io.sd,
                            build |-> build]).res = last.res

C11_Witness ==
    /\ LoginStart(17)
    /\ last.io.sd = "ok"
    /\ last.res = DataError(<<0, 0, 0, 17>>)
    /\ shut
    /\ last.wrote = <<>>

\* the text the login disconnect is to carry: the configured text when it
\* is JSON, otherwise that text between double quotes
ExpectedKick ==
    IF json_parse(server_info.config.kick_message) # None
    THEN server_info.config.kick_message
    ELSE <<34>> \o server_info.config.kick_message \o <<34>>
GoodLoginStart ==
    /\ last.called
    /\ last.pre.state = LOGIN
    /\ last.input \in {frame(login_payload(3, as_bytes(txt_bob), Zeros(16))),
                       frame(login_payload(16, Zeros(16), ZeroUuid))}
    /\ last.io.wr = "full"

\* C12: for a login start with 1 <= name_len <= 16 the server writes one
\* packet of id 0 whose body is varint(len(s)) followed by s, where s is
\* config.kick_message when that text parses as JSON and otherwise the text
\* wrapped in double quotes.  (The transport takes the write whole.)
C12_KickMessage ==
    GoodLoginStart =>
        last.wrote = packet_bytes(0, length_prefixed(as_bytes(ExpectedKick)))

\* the last call wrote the login disconnect or a legacy-ping response
Goodbye ==
    /\ last.called
    /\ last.res = Ok
    /\ last.wrote # <<>>
    /\ Entered("handle_login") \/ Entered("handle_legacy_ping")

\* C13: once the login disconnect packet or a legacy-ping response has been
\* written, the connection is closed: no later call of receive_packet on
\* that connection reads bytes of a further frame, so none is handled and
\* nothing more is written.
C13_ClosedAfterGoodbye ==
    [][Goodbye => ~(pc = "running" /\ last'.called /\ last'.consumed > 0)]_vars

\* a legacy-ping response was written whole
LegacyAnswered ==
    /\ last.called
    /\ Entered("handle_legacy_ping")
    /\ last.res = Ok
    /\ last.io.wr = "full"

\* C14: in every legacy-ping response the 16-bit length field after the 0xFF
\* byte equals the number of UTF-16 code units that follow it on the wire:
\* the three header units and the units of the response string.
C14_LegacyLengthField ==
    LegacyAnswered =>
        /\ last.wrote[1] = 255
        /\ SubSeq(last.wrote, 4, 9) = <<0, 167, 0, 49, 0, 0>>
        /\ 2 * u16_from_be(SubSeq(last.wrote, 2, 3)) = Len(last.wrote) - 3

(***************************************************************************)
(* The reload thread beside the connections                                *)
(***************************************************************************)
\* the transport's answers that the last call of receive_packet met
last_io ==
    [end |-> IF last.io.end = "any" THEN "eof" ELSE last.io.end,
     wr |-> IF last.io.wr = "none" THEN "full" ELSE last.io.wr,
     sd |-> IF last.io.sd = "none" THEN "ok" ELSE last.io.sd,
     build |-> build]

\* the reload thread has a new value in hand and waits for the write lock
ReloadPending ==
    /\ reload.pc = "config" => reload.val[1] # server_info.config
    /\ reload.pc = "icon" => reload.val # server_info.icon
    /\ reload.pc # "idle"

\* C15: while a connection is served the shared ServerInfo is the value it
\* was when the connection's handler started, whatever the reload thread
\* does in between, and what each call of receive_packet wrote is what it
\* writes from that value.
C15_ReloadIsolation ==
    /\ pc \in {"running", "hung"} => server_info = snapshot
    /\ last.called =>
          last.wrote = receive_packet(last.pre, last.input, snapshot, last_io).wrote

\* a response was written while a reload with a new value waited
C15_Witness ==
    /\ pc = "running"
    /\ last.called
    /\ last.wrote # <<>>
    /\ ReloadPending

\* the steps of the reload thread
ReloadFailed == reload.pc = "idle" /\ reload'.pc = "idle" /\ ~reload'.done.ok
ReloadedConfig == reload.pc = "config" /\ reload'.pc = "idle"
ReloadedIcon == reload.pc = "icon" /\ reload'.pc = "idle"

\* C16: a reload that cannot read or parse its file leaves the shared
\* ServerInfo as it was and the reload thread takes the next event; a
\* successful reload of config.toml replaces config alone, a successful
\* reload of icon.b64 replaces icon alone.
C16_ReloadOutcome ==
    [][/\ ReloadFailed => server_info' = server_info
       /\ reload'.pc = "idle" /\ reload' # reload =>
              reload'.val = None /\ reload'.done.after_failure = ~reload.done.ok
       /\ ReloadedConfig =>
              /\ server_info'.config = reload.val[1]
              /\ server_info'.icon = server_info.icon
              /\ reload'.done.ok
       /\ ReloadedIcon =>
              /\ server_info'.icon = reload.val
              /\ server_info'.config = server_info.config
              /\ reload'.done.ok]_vars

\* a reload of config.toml went through after a failed one, and the icon
\* that was loaded before is still there
C16_Witness ==
    /\ reload.done = [kind |-> "config", ok |-> TRUE, after_failure |-> TRUE]
    /\ server_info.icon # None
    /\ server_info \notin Loaded

(***************************************************************************)
(* State and HandshakeInfo                                                 *)
(***************************************************************************)
\* Handshaking exactly when no HandshakeInfo is stored
Paired(pl) == (pl.state = HANDSHAKING) <=> (pl.handshake_info = None)

\* C17: a connection is in Handshaking if and only if it has no
\* HandshakeInfo: a handshake that succeeds sets both, a handshake that
\* fails sets neither, and the legacy-ping path sets neither.
C17_StateInfoTogether ==
    /\ Paired(player)
    /\ last.called =>
          /\ Paired(last.pre)
          /\ (Entered("handle_handshake") /\ last.res = Ok) =>
                 (player.state # HANDSHAKING /\ player.handshake_info # None
                  /\ last.pre = new_player)
          /\ (Entered("handle_handshake") /\ last.res # Ok) => player = new_player
          /\ Entered("handle_legacy_ping") => player = new_player
          /\ ~Entered("handle_handshake") => player = last.pre

\* a frame was handled on a connection that a handshake had moved to Login
C17_Witness ==
    /\ last.called
    /\ last.pre.state = LOGIN
    /\ last.pre.handshake_info # None
    /\ player = last.pre
    /\ last.consumed > 0

(***************************************************************************)
(* Frames that are ignored                                                 *)
(***************************************************************************)
UnknownIds == {5, 128, -1}

\* the last call was given one whole frame of 1 to 255 bytes whose packet id
\* is id, and nothing after it
FrameWithId(id) ==
    /\ last.called
    /\ \E k \in 1 .. Len(last.input) :
          /\ k <= 7
          /\ Len(last.input) - k < 255
          /\ last.input = frame(wire_varint(id) \o Drop(last.input, k))

IgnoredFrame ==
    \/ last.pre.state \in {STATUS, LOGIN} /\ \E id \in UnknownIds : FrameWithId(id)
    \/ last.pre.state = TRANSFER /\ FrameWithId(0)

\* C18: a frame whose packet id is neither 0 nor 1 in Status or Login, and
\* a frame with packet id 0 in Transfer, is ignored: the whole frame is
\* taken from the stream, nothing is written, the Player is as it was, the
\* call returns Ok and handle_client goes on to read the next frame.
C18_IgnoredFrames ==
    IgnoredFrame =>
        /\ last.res = Ok
        /\ last.wrote = <<>>
        /\ player = last.pre
        /\ ~shut
        /\ pc = "running"
        /\ conn = <<>>
        /\ last.consumed = Len(last.input)

\* an unknown id was met in Login
C18_Witness ==
    /\ IgnoredFrame
    /\ last.pre.state = LOGIN
    /\ FrameWithId(-1)
    /\ pc = "running"

(***************************************************************************)
(* send_packet on the transport                                            *)
(***************************************************************************)
\* the last call reached send_packet's write
Sent ==
    /\ last.called
    /\ ~Entered("handle_legacy_ping")
    /\ last.io.wr # "none"

\* a length prefix followed by exactly as many bytes as it says
WholePacket(w) ==
    \E k \in 1 .. Len(w) : k <= 5 /\ w = frame(Drop(w, k))

\* C19: send_packet puts the whole packet on the transport, the length
\* prefix equal to the number of bytes after it, and returns IOError when
\* the transport does not take the write.
C19_SendPacketWhole ==
    Sent =>
        /\ last.res = Ok => WholePacket(last.wrote)
        /\ last.res # Ok => last.res = IOError /\ last.wrote = <<>>

(***************************************************************************)
(* Read failures                                                           *)
(***************************************************************************)
\* the last call's read of the length prefix met the read timeout
PrefixReadFailed == last.called /\ last.io.end = "timeout"

\* the length prefix was read, and the frame's bytes were not all there
BodyReadFailed ==
    /\ last.called
    /\ \E n \in 1 .. 255 :
          /\ ~is_legacy_ping(n, last.pre)
          /\ IsPrefix(wire_varint(n), last.input)
          /\ Len(last.input) - Len(wire_varint(n)) < n

\* C20: a read failure or read timeout at any read point of a connection,
\* the wait for the next frame's length prefix included, comes back from
\* receive_packet as IOError and handle_client returns it; the handler does
\* not panic.
C20_ReadFailureIsIOError ==
    /\ PrefixReadFailed => last.res = IOError /\ pc = "returned_err"
    /\ BodyReadFailed => last.res = IOError /\ pc = "returned_err"

(***************************************************************************)
(* Pings outside Status                                                    *)
(***************************************************************************)
\* the last call was given a frame with packet id 1
PingFrame == last.called /\ \E t \in PingTokens : last.input = frame(<<1>> \o t)

\* C21: a packet with id 1 is written only in state Status; a frame with
\* packet id 1 that arrives in Handshaking, Login or Transfer gets no
\* response.
C21_PingOnlyInStatus ==
    /\ (last.called /\ Entered("handle_ping") /\ last.wrote # <<>>) =>
          last.pre.state = STATUS
    /\ (PingFrame /\ last.pre.state # STATUS) => last.wrote = <<>>

(***************************************************************************)
(* Termination of handle_packet                                            *)
(***************************************************************************)
\* the last call read a whole frame and gave its buffer to handle_packet
Dispatched == last.called /\ Entered("handle_packet")

\* C22: handle_packet returns, with success or with an error, for every
\* content of the frame's buffer; a varint cut short by the end of the
\* buffer makes the decoder return, not loop.
C22_HandlePacketReturns ==
    Dispatched => last.res.kind \notin {"hang", "panic"}

(***************************************************************************)
(* Progress of the reload thread                                           *)
(***************************************************************************)
\* one connection is served, no other holds a guard, and the reload thread
\* has a parsed value in hand
PendingBesideOne == reload.pc # "idle" /\ pc = "running" /\ others = 0

\* C23: under fair scheduling a reload whose file was read and parsed is
\* in the end published: load_config or load_icon gets the write lock and
\* returns, whatever the clients do, a client that keeps its connection open
\* by sending further frames included.  Stated for the connection that is
\* followed: the reload is published unless that connection's handler ends
\* or another connection is accepted.
C23_ReloadPublished ==
    PendingBesideOne ~> (reload.pc = "idle" \/ pc # "running" \/ others > 0)

(***************************************************************************)
(* One state change per connection                                         *)
(***************************************************************************)
\* a step of a connection's handler that changes its Player
PlayerChanged == pc = "running" /\ player' # player

\* C24: the state of a connection changes at most once.  Only a handshake
\* that succeeds in Handshaking changes the Player; once the state is
\* Status, Login or Transfer no frame changes the state or the stored
\* HandshakeInfo, a second packet with id 0 included.
C24_StateChangesOnce ==
    [][/\ PlayerChanged =>
            /\ player = new_player
            /\ player'.state # HANDSHAKING
            /\ last'.res = Ok
            /\ last'.path = <<"receive_packet", "handle_packet",
                              "handle_status_login", "handle_handshake">>
       /\ (pc = "running" /\ player.state # HANDSHAKING) => player' = player]_vars

\* a second handshake frame, its intent Login, arrived in Status: it was
\* handled as a status request and left the Player as it was
C24_Witness ==
    /\ last.called
    /\ last.pre.state = STATUS
    /\ last.input = frame(handshake_payload([protocol |-> 47, host |-> as_bytes(txt_host),
                                             port |-> 25565, intent |-> 2]))
    /\ Entered("handle_status")
    /\ player = last.pre
    /\ pc = "running"

====
